---- MODULE Spec2Model ----
(***************************************************************************)
(* Model of the lockfile-generation scripts:                               *)
(*   resolve_urls.py                   (package -> URL -> repository)      *)
(*   lockfile_from_urls.py             (triples -> lockfile document)      *)
(*   enhance_with_size_and_checksum.py (lockfile -> sizes and checksums)   *)
(*                                                                         *)
(* Python strings are sequences of one-character strings, so that parsing, *)
(* suffix tests and str ordering are computed rather than assumed.         *)
(***************************************************************************)
EXTENDS Integers, Sequences, FiniteSets, Bags, TLC

VARIABLES
    \* lockfile_from_urls.py
    rpms,                   \* the parsed input triples, in input order
    lockfile,               \* the document gen_lockfile returned
    gpc,                    \* position of lockfile_from_urls.main
    \* enhance_with_size_and_checksum.py
    disk,                   \* the lockfile document persisted at lockfile_path
    files,                  \* the files below cachi2_output_dir/deps/rpm
    doc,                    \* the document loaded by json.load, mutated in place
    orig,                   \* history: the persisted document before the run
    idx,                    \* <<arch index, rpm index>> of the entry processed next
    epc,                    \* position of enhance_with_size_and_checksum.main
    \* resolve_urls.py
    arches,                 \* args.arch, in command-line order
    repos,                  \* RepoSet._mapping, in insertion order
    packages_per_repoid,    \* the requested repoids, in input order
    baseurls_to_repoids,    \* the dict built by map_expanded_baseurls
    ai,                     \* index into sorted(arches)
    ri,                     \* index into sorted(packages_per_repoid.items())
    urls,                   \* sorted result of the binary resolution of the pair
    source_urls,            \* sorted result of the source resolution of the pair
    ei,                     \* index into urls + source_urls
    out,                    \* the lines printed on stdout
    warnings,               \* the number of warnings printed on stderr
    calls,                  \* history: the invocations of the external resolver
    rpc                     \* position of resolve_urls.main

vars == <<rpms, lockfile, gpc, disk, files, doc, orig, idx, epc, arches, repos,
          packages_per_repoid, baseurls_to_repoids, ai, ri, urls, source_urls,
          ei, out, warnings, calls, rpc>>

gvars == <<rpms, lockfile, gpc>>
evars == <<disk, files, doc, orig, idx, epc>>
rvars == <<arches, repos, packages_per_repoid, baseurls_to_repoids, ai, ri,
           urls, source_urls, ei, out, warnings, calls, rpc>>

----------------------------------------------------------------------------
(* Bounds                                                                  *)

MaxRpms == 3        \* length of the input of gen_lockfile
MaxLines == 2       \* lines the external resolver writes per invocation
MaxEntries == 2     \* entries of the document given to the enrichment

----------------------------------------------------------------------------
(* Python str: ordering, suffix test                                       *)

\* code points of the characters the model uses
Ord ==
    [c \in {"#", "$", "+", "-", ".", "/"} |->
        CASE c = "#" -> 35 [] c = "$" -> 36 [] c = "+" -> 43
          [] c = "-" -> 45 [] c = "." -> 46 [] c = "/" -> 47] @@
    [c \in {"0", "1", "2", "8", ":", "?", "_"} |->
        CASE c = "0" -> 48 [] c = "1" -> 49 [] c = "2" -> 50 [] c = "8" -> 56
          [] c = ":" -> 58 [] c = "?" -> 63 [] c = "_" -> 95] @@
    [c \in {"a", "b", "c", "e", "f", "g", "h"} |->
        CASE c = "a" -> 97 [] c = "b" -> 98 [] c = "c" -> 99 [] c = "e" -> 101
          [] c = "f" -> 102 [] c = "g" -> 103 [] c = "h" -> 104] @@
    [c \in {"m", "p", "r", "s", "u", "x", "{", "}"} |->
        CASE c = "m" -> 109 [] c = "p" -> 112 [] c = "r" -> 114
          [] c = "s" -> 115 [] c = "u" -> 117 [] c = "x" -> 120
          [] c = "{" -> 123 [] c = "}" -> 125]

Letters == {"a", "b", "c", "e", "f", "g", "h", "m", "p", "r", "s", "u", "x"}
Digits == {"0", "1", "2", "8"}

\* s[i:] < t[i:] for two str that agree before position i
RECURSIVE StrLessFrom(_, _, _)
StrLessFrom(s, t, i) ==
    IF i > Len(t) THEN FALSE
    ELSE IF i > Len(s) THEN TRUE
    ELSE IF s[i] = t[i] THEN StrLessFrom(s, t, i + 1)
    ELSE Ord[s[i]] < Ord[t[i]]

\* s < t for two str
StrLess(s, t) == StrLessFrom(s, t, 1)

\* s.endswith(suffix)
endswith(s, suffix) ==
    /\ Len(suffix) <= Len(s)
    /\ SubSeq(s, Len(s) - Len(suffix) + 1, Len(s)) = suffix

\* s.startswith(prefix)
startswith(s, prefix) ==
    /\ Len(prefix) <= Len(s)
    /\ SubSeq(s, 1, Len(prefix)) = prefix

\* s[n:]
Drop(s, n) == SubSeq(s, n + 1, Len(s))

\* index of the first character of s that is in the set cs, Len(s) + 1 if none
RECURSIVE FindFirst(_, _, _)
FindFirst(s, cs, i) ==
    IF i > Len(s) THEN i
    ELSE IF s[i] \in cs THEN i
    ELSE FindFirst(s, cs, i + 1)

----------------------------------------------------------------------------
(* urllib.parse.urlsplit and pathlib.Path                                  *)

scheme_chars == Letters \cup Digits \cup {"+", "-", "."}

\* urllib.parse.urlsplit(url): scheme, netloc, path, query, fragment
urlsplit(url) ==
    LET i == FindFirst(url, {":"}, 1)
        hasScheme ==
            /\ i > 1
            /\ i <= Len(url)
            /\ url[1] \in Letters
            /\ \A j \in 1..(i - 1) : url[j] \in scheme_chars
        scheme == IF hasScheme THEN SubSeq(url, 1, i - 1) ELSE <<>>
        rest1 == IF hasScheme THEN Drop(url, i) ELSE url
        hasNetloc == startswith(rest1, <<"/", "/">>)
        afterSlashes == Drop(rest1, 2)
        n == FindFirst(afterSlashes, {"/", "?", "#"}, 1)
        netloc == IF hasNetloc THEN SubSeq(afterSlashes, 1, n - 1) ELSE <<>>
        rest2 == IF hasNetloc THEN Drop(afterSlashes, n - 1) ELSE rest1
        h == FindFirst(rest2, {"#"}, 1)
        fragment == Drop(rest2, h)
        rest3 == SubSeq(rest2, 1, h - 1)
        q == FindFirst(rest3, {"?"}, 1)
    IN  [scheme |-> scheme, netloc |-> netloc, path |-> SubSeq(rest3, 1, q - 1),
         query |-> Drop(rest3, q), fragment |-> fragment]

\* the "/"-separated components of p, empty and "." components dropped
RECURSIVE Segments(_)
Segments(p) ==
    IF p = <<>> THEN <<>>
    ELSE LET k == FindFirst(p, {"/"}, 1)
             seg == SubSeq(p, 1, k - 1)
             rest == Segments(Drop(p, k))
         IN  IF seg = <<>> \/ seg = <<".">> THEN rest ELSE <<seg>> \o rest

\* number of leading "/" of p
RECURSIVE LeadingSlashes(_)
LeadingSlashes(p) ==
    IF p # <<>> /\ Head(p) = "/" THEN 1 + LeadingSlashes(Tail(p)) ELSE 0

\* pathlib.Path(p).parts: the root (if any) followed by the components;
\* posix keeps exactly two leading slashes as the root "//"
PathParts(p) ==
    LET n == LeadingSlashes(p)
        root == IF n = 0 THEN <<>>
                ELSE IF n = 2 THEN << <<"/", "/">> >>
                ELSE << <<"/">> >>
    IN  root \o Segments(p)

\* pathlib.Path(p).name: the last component, "" for a bare root or no parts
PathName(p) ==
    LET segs == Segments(p)
    IN  IF segs = <<>> THEN <<>> ELSE segs[Len(segs)]

\* Path(p).is_relative_to(Path(base))
is_relative_to(p, base) ==
    LET pp == PathParts(p)
        bp == PathParts(base)
    IN  /\ Len(bp) <= Len(pp)
        /\ SubSeq(pp, 1, Len(bp)) = bp
        /\ (bp = <<>> => LeadingSlashes(p) = 0)

----------------------------------------------------------------------------
(* string.Template(...).safe_substitute({"basearch": arch})                 *)

IdentStart == Letters \cup {"_"}
IdentChars == Letters \cup Digits \cup {"_"}

\* length of the longest identifier that s starts with
RECURSIVE IdentTail(_)
IdentTail(s) ==
    IF s # <<>> /\ Head(s) \in IdentChars THEN 1 + IdentTail(Tail(s)) ELSE 0

IdentLen(s) ==
    IF s # <<>> /\ Head(s) \in IdentStart THEN IdentTail(s) ELSE 0

basearch == <<"b", "a", "s", "e", "a", "r", "c", "h">>

\* $$ is an escape, $name and ${name} are replaced when name is basearch,
\* everything else is left as it is
RECURSIVE safe_substitute(_, _)
safe_substitute(t, arch) ==
    IF t = <<>> THEN <<>>
    ELSE IF Head(t) # "$" THEN <<Head(t)>> \o safe_substitute(Tail(t), arch)
    ELSE LET r == Tail(t)
             n == IdentLen(r)
             m == IF r # <<>> /\ Head(r) = "{" THEN IdentLen(Tail(r)) ELSE 0
         IN  IF r # <<>> /\ Head(r) = "$"
             THEN <<"$">> \o safe_substitute(Tail(r), arch)
             ELSE IF n > 0
             THEN (IF SubSeq(r, 1, n) = basearch THEN arch
                   ELSE <<"$">> \o SubSeq(r, 1, n))
                  \o safe_substitute(Drop(r, n), arch)
             ELSE IF m > 0 /\ Len(r) >= m + 2 /\ r[m + 2] = "}"
             THEN (IF SubSeq(r, 2, m + 1) = basearch THEN arch
                   ELSE <<"$">> \o SubSeq(r, 1, m + 2))
                  \o safe_substitute(Drop(r, m + 2), arch)
             ELSE <<"$">> \o safe_substitute(r, arch)

----------------------------------------------------------------------------
(* lockfile_from_urls.py                                                   *)

\* the inputs of gen_lockfile the model draws from
GenArches == {<<"a">>, <<"b">>}
GenRepoids == {<<"r", "1">>, <<"r", "2">>}
UrlBinary == <<"s", ":", "/", "/", "h", "/", "f", ".", "r", "p", "m">>
UrlSource == <<"s", ":", "/", "/", "h", "/", "f", ".", "s", "r", "c", ".", "r", "p", "m">>
UrlSrcName == <<"s", ":", "/", "/", "h", "/", "s", "r", "c", ".", "r", "p", "m">>
UrlQuery ==
    <<"s", ":", "/", "/", "h", "/", "f", ".", "r", "p", "m", "?", ".", "s", "r", "c", ".", "r", "p", "m">>
GenUrls == {UrlBinary, UrlSource, UrlSrcName, UrlQuery}

\* class ResolvedRPM(NamedTuple); each repoid serves two of the urls
ResolvedRPM ==
    {r \in [arch : GenArches, repoid : GenRepoids, url : GenUrls] :
        (r.repoid = <<"r", "1">>) <=> (r.url \in {UrlSource, UrlSrcName})}

\* the whole url taken for the file name
filename_whole_url(url) == url

\* ResolvedRPM.filename
filename(url) == PathName(urlsplit(url).path)

src_rpm == <<".", "s", "r", "c", ".", "r", "p", "m">>

\* NamedTuple ordering: x < y compares arch, then repoid, then url
RpmLess(x, y) ==
    \/ StrLess(x.arch, y.arch)
    \/ x.arch = y.arch /\ StrLess(x.repoid, y.repoid)
    \/ x.arch = y.arch /\ x.repoid = y.repoid /\ StrLess(x.url, y.url)

\* x inserted into the sorted list s, after the elements that are not greater
RECURSIVE InsertRpm(_, _)
InsertRpm(x, s) ==
    IF s = <<>> THEN <<x>>
    ELSE IF RpmLess(x, Head(s)) THEN <<x>> \o s
    ELSE <<Head(s)>> \o InsertRpm(x, Tail(s))

RECURSIVE SortRpms(_, _)
SortRpms(s, acc) ==
    IF s = <<>> THEN acc ELSE SortRpms(Tail(s), InsertRpm(Head(s), acc))

\* the list left in input order
unsorted_rpms(s) == s

\* sorted(rpms)
sorted_rpms(s) == SortRpms(s, <<>>)

\* index of the entry of arch in arch_data, 0 if it has none yet
RECURSIVE ArchIndex(_, _, _)
ArchIndex(arch_data, arch, i) ==
    IF i > Len(arch_data) THEN 0
    ELSE IF arch_data[i].arch = arch THEN i
    ELSE ArchIndex(arch_data, arch, i + 1)

\* one iteration of the loop of gen_lockfile: the defaultdict creates the
\* entry of a new arch at the end, the item goes to source or to packages
append_rpm(arch_data, rpm) ==
    LET item == [url |-> rpm.url, repoid |-> rpm.repoid]
        k == ArchIndex(arch_data, rpm.arch, 1)
        data == IF k = 0
                THEN Append(arch_data,
                            [arch |-> rpm.arch, packages |-> <<>>, source |-> <<>>])
                ELSE arch_data
        n == IF k = 0 THEN Len(data) ELSE k
    IN  IF endswith(filename(rpm.url), src_rpm)
        THEN [data EXCEPT ![n].source = Append(@, item)]
        ELSE [data EXCEPT ![n].packages = Append(@, item)]

RECURSIVE FoldRpms(_, _)
FoldRpms(s, arch_data) ==
    IF s = <<>> THEN arch_data
    ELSE FoldRpms(Tail(s), append_rpm(arch_data, Head(s)))

\* gen_lockfile(rpms)
gen_lockfile(input) ==
    [lockfileVersion |-> 1,
     lockfileVendor |-> "redhat",
     arches |-> FoldRpms(sorted_rpms(input), <<>>)]

\* the input file is parsed; the other two scripts do not run
GenInit ==
    /\ rpms \in UNION {[1..n -> ResolvedRPM] : n \in 0..MaxRpms}
    /\ lockfile = <<>>
    /\ gpc = "start"
    /\ disk = <<>> /\ files = <<>> /\ doc = <<>> /\ orig = <<>>
    /\ idx = <<0, 0>> /\ epc = "idle"
    /\ arches = <<>> /\ repos = <<>> /\ packages_per_repoid = <<>>
    /\ baseurls_to_repoids = <<>> /\ ai = 0 /\ ri = 0
    /\ urls = <<>> /\ source_urls = <<>> /\ ei = 0
    /\ out = <<>> /\ warnings = 0 /\ calls = <<>> /\ rpc = "idle"

\* lockfile_from_urls.main: lockfile = gen_lockfile(parse_rpms(input_file))
Assemble ==
    /\ gpc = "start"
    /\ lockfile' = gen_lockfile(rpms)
    /\ gpc' = "done"
    /\ UNCHANGED <<rpms, evars, rvars>>

----------------------------------------------------------------------------
(* enhance_with_size_and_checksum.py                                       *)

\* hashlib.file_digest(f, "sha256").hexdigest(), abbreviated to 8 digits
hexdigest(content) ==
    CASE content = <<>> -> "e3b0c442"
      [] content = <<1>> -> "4bf5122f"
      [] content = <<1, 2>> -> "a12871fe"

\* sha256sum(filepath)
sha256sum(content) == "sha256:" \o hexdigest(content)

\* the entries the enriched documents are made of: a triple and the fields
\* an earlier run (or an editor) left in its entry
EnrichUrls == {UrlBinary, UrlSource}
EnrichRpms == [arch : GenArches, repoid : {<<"r", "1">>}, url : EnrichUrls]
NoFields == <<>>
SizeOnly == [size |-> 7]
BothFields == [size |-> 7, checksum |-> "sha256:0badc0de"]
FalsyFields == [size |-> 0, checksum |-> ""]
FieldVariants == {NoFields, SizeOnly, BothFields, FalsyFields}

\* the document gen_lockfile wrote for the triples, entry i of the sorted
\* triples carrying the fields fields[i]
RECURSIVE WithFields(_, _, _)
WithFields(sortedRpms, fields, arch_data) ==
    IF sortedRpms = <<>> THEN arch_data
    ELSE LET rpm == Head(sortedRpms)
             before == append_rpm(arch_data, rpm)
             n == ArchIndex(before, rpm.arch, 1)
             src == endswith(filename(rpm.url), src_rpm)
             item == [url |-> rpm.url, repoid |-> rpm.repoid] @@ Head(fields)
             after ==
                 IF src
                 THEN [before EXCEPT ![n].source[Len(before[n].source)] = item]
                 ELSE [before EXCEPT ![n].packages[Len(before[n].packages)] = item]
         IN  WithFields(Tail(sortedRpms), Tail(fields), after)

EnrichDocs ==
    { [lockfileVersion |-> 1, lockfileVendor |-> "redhat",
       arches |-> WithFields(sorted_rpms(t), f, <<>>)] :
        <<t, f>> \in UNION {[1..n -> EnrichRpms] \X [1..n -> FieldVariants] :
                            n \in 0..MaxEntries} }

\* cachi2_output_dir / "deps/rpm" / arch / repoid / filename
EnrichPaths == {<<r.arch, r.repoid, filename(r.url)>> : r \in EnrichRpms}

\* the directory: the existing paths and their contents
FileSystems ==
    UNION {[ps -> {<<1>>, <<1, 2>>}] : ps \in SUBSET EnrichPaths}

\* rpms = arch_data["packages"] + arch_data["source"]
rpms_of(arch_data) == arch_data.packages \o arch_data.source

\* the position of the first entry at or after <<a, k>>, skipping the
\* arches whose rpms are exhausted; <<Len + 1, 1>> when the loops are over
RECURSIVE Normalize(_, _, _)
Normalize(d, a, k) ==
    IF a > Len(d.arches) THEN <<a, 1>>
    ELSE IF k > Len(rpms_of(d.arches[a])) THEN Normalize(d, a + 1, 1)
    ELSE <<a, k>>

\* not rpm.get(key): the key is absent or its value is falsy
not_get(rpm, key) ==
    \/ key \notin DOMAIN rpm
    \/ rpm[key] = (IF key = "size" THEN 0 ELSE "")

\* the entry at position <<a, k>> with one field replaced
SetField(d, a, k, key, value) ==
    LET np == Len(d.arches[a].packages)
        old == rpms_of(d.arches[a])[k]
        new == [f \in DOMAIN old \cup {key} |-> IF f = key THEN value ELSE old[f]]
    IN  IF k <= np
        THEN [d EXCEPT !.arches[a].packages[k] = new]
        ELSE [d EXCEPT !.arches[a].source[k - np] = new]

EnrichInit ==
    /\ disk \in EnrichDocs
    /\ files \in FileSystems
    /\ orig = disk
    /\ doc = <<>>
    /\ idx = <<0, 0>>
    /\ epc = "start"
    /\ rpms = <<>> /\ lockfile = <<>> /\ gpc = "idle"
    /\ arches = <<>> /\ repos = <<>> /\ packages_per_repoid = <<>>
    /\ baseurls_to_repoids = <<>> /\ ai = 0 /\ ri = 0
    /\ urls = <<>> /\ source_urls = <<>> /\ ei = 0
    /\ out = <<>> /\ warnings = 0 /\ calls = <<>> /\ rpc = "idle"

\* lockfile = json.load(f)
Load ==
    /\ epc = "start"
    /\ doc' = disk
    /\ idx' = Normalize(disk, 1, 1)
    /\ epc' = "loop"
    /\ UNCHANGED <<disk, files, orig, gvars, rvars>>

\* the document after the body of the inner loop ran for the entry at idx;
\* stat() and open() raise when the file is missing
EnrichedEntry ==
    LET a == idx[1]
        k == idx[2]
        rpm == rpms_of(doc.arches[a])[k]
        downloaded_rpm == <<doc.arches[a].arch, rpm.repoid, filename(rpm.url)>>
        withSize ==
            IF not_get(rpm, "size")
            THEN SetField(doc, a, k, "size", Len(files[downloaded_rpm]))
            ELSE doc
        rpm2 == rpms_of(withSize.arches[a])[k]
    IN  IF not_get(rpm2, "checksum")
        THEN SetField(withSize, a, k, "checksum", sha256sum(files[downloaded_rpm]))
        ELSE withSize

\* the entry at idx needs the downloaded file and the file is missing
Raises ==
    LET a == idx[1]
        rpm == rpms_of(doc.arches[a])[idx[2]]
        downloaded_rpm == <<doc.arches[a].arch, rpm.repoid, filename(rpm.url)>>
    IN  /\ not_get(rpm, "size") \/ not_get(rpm, "checksum")
        /\ downloaded_rpm \notin DOMAIN files

\* one iteration that also rewrites the lockfile at once
EnrichEntryWriteThrough ==
    /\ epc = "loop"
    /\ idx[1] <= Len(doc.arches)
    /\ IF Raises
       THEN /\ epc' = "failed"
            /\ UNCHANGED <<doc, idx, disk>>
       ELSE /\ doc' = EnrichedEntry
            /\ disk' = EnrichedEntry
            /\ idx' = Normalize(doc, idx[1], idx[2] + 1)
            /\ epc' = "loop"
    /\ UNCHANGED <<files, orig, gvars, rvars>>

\* one iteration of "for rpm in rpms"
EnrichEntry ==
    /\ epc = "loop"
    /\ idx[1] <= Len(doc.arches)
    /\ IF Raises
       THEN /\ epc' = "failed"
            /\ UNCHANGED <<doc, idx>>
       ELSE /\ doc' = EnrichedEntry
            /\ idx' = Normalize(doc, idx[1], idx[2] + 1)
            /\ epc' = "loop"
    /\ UNCHANGED <<disk, files, orig, gvars, rvars>>

\* json.dump(lockfile, f, indent=2) after the loops
WriteLockfile ==
    /\ epc = "loop"
    /\ idx[1] > Len(doc.arches)
    /\ disk' = doc
    /\ epc' = "done"
    /\ UNCHANGED <<files, doc, orig, idx, gvars, rvars>>

----------------------------------------------------------------------------
(* resolve_urls.py                                                         *)

R1 == <<"r", "1">>
R2 == <<"r", "2">>
ArchA == <<"a">>
ArchB == <<"b">>

\* RepoSet._mapping as parse_dir can build it: the repoids and their baseurl
\* attributes, in the order in which the .repo files were read
Catalogs ==
    { << [repoid |-> R1, baseurl |-> <<"s", ":", "/", "/", "h", "/", "$", "b", "a", "s", "e", "a", "r", "c", "h">>],
         [repoid |-> R2, baseurl |-> <<"s", ":", "/", "/", "h", "/", "$", "b", "a", "s", "e", "a", "r", "c", "h", "/", "u">>] >>,
      << [repoid |-> R2, baseurl |-> <<"s", ":", "/", "/", "h", "/", "$", "b", "a", "s", "e", "a", "r", "c", "h", "/", "u">>],
         [repoid |-> R1, baseurl |-> <<"s", ":", "/", "/", "h", "/", "$", "b", "a", "s", "e", "a", "r", "c", "h">>] >> }

\* the command lines: --arch options and the repoids of the input file
Requests ==
    { [arches |-> <<ArchA, ArchB>>, repoids |-> <<R1>>],
      [arches |-> <<ArchB, ArchA>>, repoids |-> <<R1>>],
      [arches |-> <<ArchA>>, repoids |-> <<R2, R1>>] }

\* the lines the external resolver can write to its stdout
Lines ==
    { <<"s", ":", "/", "/", "h", "/", "a", "/", "u", "/", "f", ".", "s", "r", "c", ".", "r", "p", "m">>,
      <<"s", ":", "/", "/", "g", "/", "a", "/", "f", ".", "r", "p", "m">>,
      <<"e", "r", "r">> }

Stdouts == UNION {[1..n -> Lines] : n \in 0..MaxLines}

RECURSIVE InsertStr(_, _)
InsertStr(x, s) ==
    IF s = <<>> THEN <<x>>
    ELSE IF StrLess(x, Head(s)) THEN <<x>> \o s
    ELSE <<Head(s)>> \o InsertStr(x, Tail(s))

RECURSIVE SortStrs(_, _)
SortStrs(s, acc) ==
    IF s = <<>> THEN acc ELSE SortStrs(Tail(s), InsertStr(Head(s), acc))

\* sorted(...) of a list of str
sorted_strs(s) == SortStrs(s, <<>>)

\* index of the key baseurl in the dict, 0 if it is not a key
RECURSIVE KeyIndex(_, _, _)
KeyIndex(mapping, baseurl, i) ==
    IF i > Len(mapping) THEN 0
    ELSE IF mapping[i].baseurl = baseurl THEN i
    ELSE KeyIndex(mapping, baseurl, i + 1)

\* mapping[key] = repoid: a new key goes to the end of the dict, an existing
\* key keeps its place and gets the new value
DictSet(mapping, baseurl, repoid) ==
    LET k == KeyIndex(mapping, baseurl, 1)
    IN  IF k = 0 THEN Append(mapping, [baseurl |-> baseurl, repoid |-> repoid])
        ELSE [mapping EXCEPT ![k].repoid = repoid]

\* the inner loop of map_expanded_baseurls for one arch
RECURSIVE ExpandRepos(_, _, _)
ExpandRepos(rs, arch, mapping) ==
    IF rs = <<>> THEN mapping
    ELSE ExpandRepos(Tail(rs), arch,
             DictSet(mapping,
                     urlsplit(safe_substitute(Head(rs).baseurl, arch)),
                     Head(rs).repoid))

RECURSIVE ExpandArches(_, _, _)
ExpandArches(rs, as, mapping) ==
    IF as = <<>> THEN mapping
    ELSE ExpandArches(rs, Tail(as), ExpandRepos(rs, Head(as), mapping))

\* RepoSet.map_expanded_baseurls(arches)
map_expanded_baseurls(rs, as) == ExpandArches(rs, as, <<>>)

\* the condition of the if in map_url_to_repoid
Matches(package_url, baseurl) ==
    /\ package_url.scheme = baseurl.scheme
    /\ package_url.netloc = baseurl.netloc
    /\ is_relative_to(package_url.path, baseurl.path)

\* position in the dict of the first baseurl that matches, 0 if none does
RECURSIVE FirstMatch(_, _, _)
FirstMatch(package_url, mapping, i) ==
    IF i > Len(mapping) THEN 0
    ELSE IF Matches(package_url, mapping[i].baseurl) THEN i
    ELSE FirstMatch(package_url, mapping, i + 1)

\* map_url_to_repoid(package_url, baseurls_to_repoids): the repoid of the
\* first match in dict order; <<>> stands for raise ValueError
map_url_to_repoid(package_url, mapping) ==
    LET k == FirstMatch(urlsplit(package_url), mapping, 1)
    IN  IF k = 0 THEN <<>> ELSE mapping[k].repoid

\* [url for url in maybe_urls if urllib.parse.urlsplit(url).scheme]
RECURSIVE only_urls(_)
only_urls(maybe_urls) ==
    IF maybe_urls = <<>> THEN <<>>
    ELSE IF urlsplit(Head(maybe_urls)).scheme # <<>>
    THEN <<Head(maybe_urls)>> \o only_urls(Tail(maybe_urls))
    ELSE only_urls(Tail(maybe_urls))

\* the bag of the elements of a list
RECURSIVE BagOf(_)
BagOf(s) ==
    IF s = <<>> THEN EmptyBag ELSE BagOf(Tail(s)) (+) SetToBag({Head(s)})

\* the return code is never checked
never_raises(returncode, source) == FALSE

\* proc.check_returncode() is reached and raises
check_returncode_raises(returncode, source) == returncode # 0 /\ ~source

\* what resolve_urls returns when it returns
resolve_urls_result(returncode, stdout, source) == only_urls(stdout)

\* the arch and the repoid of the current iteration of the loops of main
cur_arch == sorted_strs(arches)[ai]
cur_repoid == sorted_strs(packages_per_repoid)[ri]

ResolveInit ==
    /\ \E rq \in Requests :
          /\ arches = rq.arches
          /\ packages_per_repoid = rq.repoids
    /\ repos \in Catalogs
    /\ baseurls_to_repoids = <<>>
    /\ ai = 0 /\ ri = 0 /\ ei = 0
    /\ urls = <<>> /\ source_urls = <<>>
    /\ out = <<>> /\ warnings = 0 /\ calls = <<>>
    /\ rpc = "start"
    /\ rpms = <<>> /\ lockfile = <<>> /\ gpc = "idle"
    /\ disk = <<>> /\ files = <<>> /\ doc = <<>> /\ orig = <<>>
    /\ idx = <<0, 0>> /\ epc = "idle"

\* main up to the loops: the dict of the expanded baseurls
Start ==
    /\ rpc = "start"
    /\ baseurls_to_repoids' = map_expanded_baseurls(repos, arches)
    /\ ai' = 1 /\ ri' = 1
    /\ rpc' = "binary"
    /\ UNCHANGED <<arches, repos, packages_per_repoid, urls, source_urls, ei,
                   out, warnings, calls, gvars, evars>>

\* the loops move on to the next (arch, repoid) pair, or main returns
NextPair ==
    IF ri < Len(packages_per_repoid)
    THEN ai' = ai /\ ri' = ri + 1 /\ rpc' = "binary"
    ELSE IF ai < Len(arches)
    THEN ai' = ai + 1 /\ ri' = 1 /\ rpc' = "binary"
    ELSE ai' = ai /\ ri' = ri /\ rpc' = "done"

\* urls = sorted(resolve_urls(packages, reposdir, repoid, arch, source=False))
ResolveBinary ==
    /\ rpc = "binary"
    /\ \E returncode \in {0, 1}, stdout \in Stdouts :
          IF check_returncode_raises(returncode, FALSE)
          THEN /\ rpc' = "failed"
               /\ calls' = Append(calls,
                      [arch |-> cur_arch, repoid |-> cur_repoid, source |-> FALSE,
                       returncode |-> returncode, returned |-> EmptyBag,
                       emitted |-> Len(out)])
               /\ UNCHANGED urls
          ELSE LET result == resolve_urls_result(returncode, stdout, FALSE)
               IN  /\ urls' = sorted_strs(result)
                   /\ calls' = Append(calls,
                          [arch |-> cur_arch, repoid |-> cur_repoid,
                           source |-> FALSE, returncode |-> returncode,
                           returned |-> BagOf(result), emitted |-> Len(out)])
                   /\ rpc' = "source"
    /\ UNCHANGED <<arches, repos, packages_per_repoid, baseurls_to_repoids, ai,
                   ri, source_urls, ei, out, warnings, gvars, evars>>

\* source_urls = sorted(resolve_urls(packages, reposdir, repoid, arch, source=True))
ResolveSource ==
    /\ rpc = "source"
    /\ \E returncode \in {0, 1}, stdout \in Stdouts :
          LET result == resolve_urls_result(returncode, stdout, TRUE)
          IN  /\ ~check_returncode_raises(returncode, TRUE)
              /\ warnings' = IF returncode # 0 THEN warnings + 1 ELSE warnings
              /\ source_urls' = sorted_strs(result)
              /\ calls' = Append(calls,
                     [arch |-> cur_arch, repoid |-> cur_repoid, source |-> TRUE,
                      returncode |-> returncode, returned |-> BagOf(result),
                      emitted |-> Len(out)])
              /\ IF urls \o result = <<>>
                 THEN NextPair /\ ei' = ei
                 ELSE ai' = ai /\ ri' = ri /\ ei' = 1 /\ rpc' = "emit"
    /\ UNCHANGED <<arches, repos, packages_per_repoid, baseurls_to_repoids,
                   urls, out, gvars, evars>>

\* one iteration that skips a url no baseurl matches
EmitUrlDropping ==
    /\ rpc = "emit"
    /\ LET url == (urls \o source_urls)[ei]
           repoid == map_url_to_repoid(url, baseurls_to_repoids)
       IN  /\ out' = IF repoid = <<>> THEN out
                     ELSE Append(out, [arch |-> cur_arch, repoid |-> repoid,
                                       url |-> url])
           /\ IF ei < Len(urls \o source_urls)
              THEN ei' = ei + 1 /\ ai' = ai /\ ri' = ri /\ rpc' = "emit"
              ELSE ei' = ei /\ NextPair
    /\ UNCHANGED <<arches, repos, packages_per_repoid, baseurls_to_repoids,
                   urls, source_urls, warnings, calls, gvars, evars>>

\* one iteration of "for url in urls + source_urls"
EmitUrl ==
    /\ rpc = "emit"
    /\ LET url == (urls \o source_urls)[ei]
           repoid == map_url_to_repoid(url, baseurls_to_repoids)
       IN  IF repoid = <<>>
           THEN /\ rpc' = "failed"
                /\ UNCHANGED <<out, ai, ri, ei>>
           ELSE /\ out' = Append(out, [arch |-> cur_arch, repoid |-> repoid,
                                       url |-> url])
                /\ IF ei < Len(urls \o source_urls)
                   THEN ei' = ei + 1 /\ ai' = ai /\ ri' = ri /\ rpc' = "emit"
                   ELSE ei' = ei /\ NextPair
    /\ UNCHANGED <<arches, repos, packages_per_repoid, baseurls_to_repoids,
                   urls, source_urls, warnings, calls, gvars, evars>>

----------------------------------------------------------------------------
(* Specifications, one per script                                          *)

AssembleNext == Assemble
AssembleSpec == GenInit /\ [][AssembleNext]_vars

EnrichNext == Load \/ EnrichEntry \/ WriteLockfile
EnrichSpec == EnrichInit /\ [][EnrichNext]_vars

ResolveNext == Start \/ ResolveBinary \/ ResolveSource \/ EmitUrl
ResolveSpec == ResolveInit /\ [][ResolveNext]_vars

----------------------------------------------------------------------------
(* Properties of lockfile_from_urls.py                                     *)

\* the set of the elements of a list
Range(s) == {s[i] : i \in DOMAIN s}

\* no element occurs twice in the list
NoRepeats(s) == \A i, j \in DOMAIN s : s[i] = s[j] => i = j

\* C1: the lockfile is deduplicated: no architecture entry holds two entries
\* with the same (url, repoid) in its packages list or in its source list
C1_Deduplicated ==
    gpc = "done" =>
        \A e \in Range(lockfile.arches) :
            NoRepeats(e.packages) /\ NoRepeats(e.source)

\* the list without its element at position i
Without(s, i) == SubSeq(s, 1, i - 1) \o SubSeq(s, i + 1, Len(s))

\* the reorderings of a list
RECURSIVE Orderings(_)
Orderings(s) ==
    IF s = <<>> THEN {<<>>}
    ELSE UNION {{<<s[i]>> \o o : o \in Orderings(Without(s, i))} : i \in DOMAIN s}

\* entry x does not come after entry y in the order of (repoid, url)
ItemLeq(x, y) ==
    \/ StrLess(x.repoid, y.repoid)
    \/ x.repoid = y.repoid /\ (x.url = y.url \/ StrLess(x.url, y.url))

Ascending(items) ==
    \A i \in 1..(Len(items) - 1) : ItemLeq(items[i], items[i + 1])

\* C7: every ordering of the input gives the same document, the
\* architecture entries ascend by architecture and the entries of each list
\* ascend by (repoid, url)
C7_OrderIndependent ==
    gpc = "done" =>
        /\ \A o \in Orderings(rpms) : gen_lockfile(o) = lockfile
        /\ \A i \in 1..(Len(lockfile.arches) - 1) :
              StrLess(lockfile.arches[i].arch, lockfile.arches[i + 1].arch)
        /\ \A e \in Range(lockfile.arches) :
              Ascending(e.packages) /\ Ascending(e.source)

\* C7 witness: an input that is not in order and spans two architectures
C7_Witness ==
    /\ gpc = "done"
    /\ Len(lockfile.arches) = 2
    /\ \E i \in 1..(Len(rpms) - 1) : RpmLess(rpms[i + 1], rpms[i])
    /\ \E e \in Range(lockfile.arches) : Len(e.packages) >= 2

\* the urls of GenUrls whose last path segment ends with .src.rpm
SourceUrls == {UrlSource}

\* the entries the input holds for an architecture, sources or binaries
Expected(arch, source) ==
    LET picked == {i \in DOMAIN rpms :
                      /\ rpms[i].arch = arch
                      /\ (rpms[i].url \in SourceUrls) = source}
    IN  [it \in {[url |-> rpms[i].url, repoid |-> rpms[i].repoid] : i \in picked}
            |-> Cardinality({i \in picked : rpms[i].url = it.url
                                          /\ rpms[i].repoid = it.repoid})]

\* C8: every input triple is in the entry of its architecture, in source
\* when its file name ends with .src.rpm and in packages otherwise, and
\* the document holds nothing else
C8_Partition ==
    gpc = "done" =>
        /\ {e.arch : e \in Range(lockfile.arches)} = {r.arch : r \in Range(rpms)}
        /\ NoRepeats([i \in DOMAIN lockfile.arches |-> lockfile.arches[i].arch])
        /\ \A e \in Range(lockfile.arches) :
              /\ BagOf(e.source) = Expected(e.arch, TRUE)
              /\ BagOf(e.packages) = Expected(e.arch, FALSE)

\* C8 witness: an input with a source rpm and a url whose query, but not
\* its file name, ends with .src.rpm
C8_Witness ==
    /\ gpc = "done"
    /\ \E e \in Range(lockfile.arches) :
          /\ \E it \in Range(e.source) : it.url \in SourceUrls
          /\ \E it \in Range(e.packages) :
                endswith(it.url, src_rpm) /\ it.url \notin SourceUrls

----------------------------------------------------------------------------
(* Properties of enhance_with_size_and_checksum.py                         *)

\* the positions <<a, k>> of the entries of a document
Positions(d) ==
    {<<a, k>> \in (DOMAIN d.arches) \X (1..MaxEntries) :
        k <= Len(rpms_of(d.arches[a]))}

EntryAt(d, pos) == rpms_of(d.arches[pos[1]])[pos[2]]

\* C2: a size or checksum that the input document holds has the same value
\* in the output, whatever the value, and a document whose entries all have
\* both fields is written back unchanged
C2_NeverOverwrites ==
    epc \in {"loop", "done"} =>
        /\ \A pos \in Positions(orig) :
              \A key \in {"size", "checksum"} \cap DOMAIN EntryAt(orig, pos) :
                  EntryAt(doc, pos)[key] = EntryAt(orig, pos)[key]
        /\ (epc = "done" /\ \A pos \in Positions(orig) :
                {"size", "checksum"} \subseteq DOMAIN EntryAt(orig, pos))
              => disk = orig

\* an entry of the input document lacks a field and its file is missing
MissingArtifact ==
    \E pos \in Positions(orig) :
        /\ ~({"size", "checksum"} \subseteq DOMAIN EntryAt(orig, pos))
        /\ \A path \in DOMAIN files :
              ~ /\ path[1] = orig.arches[pos[1]].arch
                /\ path[2] = EntryAt(orig, pos).repoid
                /\ endswith(EntryAt(orig, pos).url, <<"/">> \o path[3])

\* C10: with a missing artifact the run never completes, a failed run leaves
\* the persisted document as it was, and the document is rewritten only by
\* a run that has processed every entry
C10_FailsAtomically ==
    /\ MissingArtifact => epc # "done"
    /\ epc = "failed" => disk = orig
    /\ disk # orig => epc = "done" /\ idx[1] > Len(doc.arches)

\* C10 witness: the run failed after it had enriched an earlier entry
C10_Witness ==
    /\ epc = "failed"
    /\ MissingArtifact
    /\ doc # orig
    /\ disk = orig

----------------------------------------------------------------------------
(* Properties of resolve_urls.py                                           *)

\* the baseurls of the dict that match a url
MatchingKeys(url) ==
    {k \in DOMAIN baseurls_to_repoids :
        Matches(urlsplit(url), baseurls_to_repoids[k].baseurl)}

PathLen(k) == Len(PathParts(baseurls_to_repoids[k].baseurl.path))

\* C3: a url is attributed to the repository of the matching baseurl with
\* the longest path, whatever the order of registration
C3_LongestPrefix ==
    \A t \in Range(out) :
        \E k \in MatchingKeys(t.url) :
            /\ baseurls_to_repoids[k].repoid = t.repoid
            /\ \A j \in MatchingKeys(t.url) : PathLen(j) <= PathLen(k)

\* the (arch, repoid) pairs of the run, in the order of the loops of main
PairsOfRun ==
    {<<a, r>> : a \in Range(arches), r \in Range(packages_per_repoid)}

CallsOf(pair, source) ==
    {i \in DOMAIN calls : /\ calls[i].arch = pair[1]
                          /\ calls[i].repoid = pair[2]
                          /\ calls[i].source = source}

\* number of triples of an arch and a url in the output
Emitted(arch, url) ==
    Cardinality({i \in DOMAIN out : out[i].arch = arch /\ out[i].url = url})

\* C4: a failed source resolution returns no url, whatever the tool wrote,
\* a warning is printed for it, and the run goes on: a completed run has
\* resolved every pair and emitted the binary urls of every pair
C4_SourceFailureIsEmpty ==
    /\ \A i \in DOMAIN calls :
          (calls[i].source /\ calls[i].returncode # 0)
              => calls[i].returned = EmptyBag
    /\ warnings = Cardinality({i \in DOMAIN calls :
                                  calls[i].source /\ calls[i].returncode # 0})
    /\ rpc = "done" =>
          \A pair \in PairsOfRun :
              /\ Cardinality(CallsOf(pair, FALSE)) = 1
              /\ Cardinality(CallsOf(pair, TRUE)) = 1
              /\ \A i \in CallsOf(pair, FALSE) :
                    \A u \in BagToSet(calls[i].returned) :
                        Emitted(pair[1], u) >= CopiesIn(u, calls[i].returned)

\* C5: a binary resolution that exits non-zero is the last invocation of
\* the resolver, the run has failed, and nothing is emitted after it
C5_FailFast ==
    \A i \in DOMAIN calls :
        (~calls[i].source /\ calls[i].returncode # 0) =>
            /\ i = Len(calls)
            /\ rpc = "failed"
            /\ Len(out) = calls[i].emitted

\* C5 witness: the binary resolution of a later pair failed after triples
\* of an earlier pair were emitted
C5_Witness ==
    /\ rpc = "failed"
    /\ Len(calls) >= 3
    /\ ~calls[Len(calls)].source
    /\ calls[Len(calls)].returncode # 0
    /\ out # <<>>

\* all copies of a url the resolver returned for an arch
Returned(arch, url) ==
    LET is == {i \in DOMAIN calls : calls[i].arch = arch}
        RECURSIVE Sum(_)
        Sum(js) == IF js = {} THEN 0
                   ELSE LET j == CHOOSE x \in js : TRUE
                        IN  CopiesIn(url, calls[j].returned) + Sum(js \ {j})
    IN  Sum(is)

ReturnedUrls == UNION {BagToSet(calls[i].returned) : i \in DOMAIN calls}

\* C6: a run that completes has returned no url without a matching baseurl,
\* and has emitted every returned url once per occurrence; a url without a
\* match that is due to be emitted fails the run
C6_NoSilentDrop ==
    /\ rpc = "done" =>
          /\ \A u \in ReturnedUrls : MatchingKeys(u) # {}
          /\ \A a \in Range(arches) : \A u \in ReturnedUrls :
                Emitted(a, u) = Returned(a, u)
          /\ \A t \in Range(out) : t.url \in ReturnedUrls
    /\ \A t \in Range(out) : MatchingKeys(t.url) # {}

\* C6 witness: a completed run in which one invocation returned a url twice
C6_Witness ==
    /\ rpc = "done"
    /\ \E i \in DOMAIN calls : \E u \in BagToSet(calls[i].returned) :
          CopiesIn(u, calls[i].returned) = 2
    /\ Len(out) >= 3

\* C9: the repoid emitted for a url resolved for an arch is that of a
\* repository whose baseurl, expanded with that arch, matches the url
C9_PerArchitecture ==
    \A t \in Range(out) :
        \E i \in DOMAIN repos :
            /\ repos[i].repoid = t.repoid
            /\ Matches(urlsplit(t.url),
                       urlsplit(safe_substitute(repos[i].baseurl, t.arch)))

====
